---- MODULE Spec2Model ----
(***************************************************************************)
(* The proposer of cold-io (src/src/proposer.rs), its managed streams and  *)
(* single-use tokens (src/src/managed_stream.rs) and the request batch     *)
(* (src/src/request.rs), as a state machine.  One call of Proposer::run is *)
(* a walk of pc from "idle" back to "idle"; the state machine's accept is  *)
(* a window (accepting = TRUE) opened by send_proposal, inside which the   *)
(* state machine may use or drop the tokens it owns.                       *)
(***************************************************************************)
EXTENDS Integers, Sequences, FiniteSets, TLC

VARIABLES
    started,      \* Proposer.started
    request,      \* Proposer.request, the pending request
    listener,     \* Proposer.listener: TRUE iff Some(TcpListener)
    streams,      \* Proposer.streams: SocketAddr -> ManagedStream
    in_progress,  \* Proposer.in_progress: Token -> SocketAddr
    blacklist,    \* Proposer.blacklist: set of IpAddr
    last_token,   \* Proposer.last_token
    armed,        \* the OS poller: registered token -> armed interest
    backlog,      \* the OS accept queue of the listener
    pc,           \* position inside Proposer::run
    blq,          \* run_inner: the blacklist iterator still to apply
    conq,         \* run_inner: the connect iterator still to apply
    events,       \* run_inner: the events still to dispatch
    pr,           \* run_inner: the proposals of one event still to send
    error,        \* run_inner: the ProposerError being accumulated
    result,       \* what the last call of run returned
    accepting,    \* the state machine is inside State::accept
    held,         \* tokens owned by the state machine: <<token, dir>> -> count
    delivered,    \* proposals sent during the current call of run
    lastOp,       \* the last operation on a socket and what it did to the OS
    issued,       \* commands the state machine has issued so far
    merge,        \* the replies the state machine will give, and how many it gave
    observer,     \* on: reads and mints are observed; eof: the streams (by token) a read
                  \* of which returned Done { length: 0, will_close: true };
                  \* closed: the live tokens <<token, dir>> minted by an event
                  \* that reported their direction closed; hup: the streams
                  \* (by token) an event reported closed in both directions
    hello         \* examples/hello_world.rs: the thread that is running (who),
                  \* the ExampleState of each thread, the Proposer and the
                  \* sockets of the thread that is not running (parked), the
                  \* connection between the two (wire) and the proposals
                  \* each state machine received (trace)

vars == <<started, request, listener, streams, in_progress, blacklist,
          last_token, armed, backlog, pc, blq, conq, events, pr, error,
          result, accepting, held, delivered, lastOp, issued, merge, observer,
          hello>>

\* ------------------------------------------------------------------ bounds
MaxToken == 2      \* streams registered over the life of the proposer
MaxEvents == 2     \* events one poll may return (events_capacity)
MaxPending == 2    \* length the pending blacklist / connect list may reach
MaxBacklog == 2    \* connections waiting in the accept queue
MaxCommands == 2   \* commands the state machine issues in all
MaxStreams == 1    \* connections open at the same time
MergeLen == 3      \* replies merged into the pending request before it is applied
MaxReplies == 2    \* replies holding a command that are recorded as they are given

\* ------------------------------------------------------------- vocabulary
\* A SocketAddr is <<ip, port>>; the peers share an ip and differ in the port.
Addr == {<<1, 1>>, <<1, 2>>}
\* The addresses the state machine asks to blacklist.
BlacklistAddr == {<<1, 1>>}
Ip(a) == a[1]
Dirs == {"R", "W"}
Tokens == 0 .. (MaxToken - 1)
LISTENER == 2147483647
Sources == {"None", "Port"}

Remove(f, k) == [x \in DOMAIN f \ {k} |-> f[x]]
Put(f, k, v) == [x \in DOMAIN f \cup {k} |-> IF x = k THEN v ELSE f[x]]
SeqsUpTo(S, n) == UNION {[1 .. k -> S] : k \in 0 .. n}

\* ---------------------------------------------------------------- Request
EmptyRequest == [source |-> "absent", blacklist |-> <<>>, connect |-> <<>>]

\* A merge that puts the new entries in front of the pending ones.
AddAssign_Prepend(self, rhs) ==
    [source |-> IF self.source = "absent" /\ rhs.source # "absent"
                THEN rhs.source ELSE self.source,
     blacklist |-> rhs.blacklist \o self.blacklist,
     connect |-> rhs.connect \o self.connect]

\* A merge in which the last source wins.
AddAssign_LastSource(self, rhs) ==
    [source |-> IF rhs.source # "absent" THEN rhs.source ELSE self.source,
     blacklist |-> self.blacklist \o rhs.blacklist,
     connect |-> self.connect \o rhs.connect]

AddAssign(self, rhs) ==
    [source |-> IF self.source = "absent" /\ rhs.source # "absent"
                THEN rhs.source ELSE self.source,
     blacklist |-> self.blacklist \o rhs.blacklist,
     connect |-> self.connect \o rhs.connect]

\* ---------------------------------------------------------- ManagedStream
ManagedStreamNew(token) ==
    [token |-> token,
     reader |-> FALSE, reader_discarded |-> FALSE, reader_used |-> FALSE,
     writer |-> FALSE, writer_discarded |-> FALSE, writer_used |-> FALSE]

CanWriteOnce(s) == ~s.writer /\ ~s.writer_discarded
CanReadOnce(s) == ~s.reader /\ ~s.reader_discarded
write_once(s) == IF CanWriteOnce(s) THEN [s EXCEPT !.writer = TRUE] ELSE s
read_once(s) == IF CanReadOnce(s) THEN [s EXCEPT !.reader = TRUE] ELSE s

closed(s) == s.reader_discarded /\ s.writer_discarded

\* A set_write_closed that forgets the half-close the poller reported.
set_write_closed_Forgets(s) == s

set_read_closed(s) == [s EXCEPT !.reader_discarded = TRUE]
set_write_closed(s) == [s EXCEPT !.writer_discarded = TRUE]

interests(s) ==
    (IF ~s.reader /\ ~s.reader_discarded THEN {"R"} ELSE {})
    \cup (IF ~s.writer /\ ~s.writer_discarded THEN {"W"} ELSE {})

\* ManagedStream::discard: both halves marked discarded; the stream is consumed.
discard(s) == [s EXCEPT !.reader_discarded = TRUE, !.writer_discarded = TRUE]

\* ------------------------------------------------------------ once-tokens
\* What the OS answers to one non-blocking read or write.
OsIo == {"Ok0", "Ok1", "WouldBlock", "NotConnected", "Other"}

\* The match on the OS answer in WriteOnce::write / ReadOnce::read.
IoResult(os, will_close) ==
    CASE os = "Ok0" -> [kind |-> "Done", length |-> 0, will_close |-> will_close]
      [] os = "Ok1" -> [kind |-> "Done", length |-> 1, will_close |-> will_close]
      [] os = "WouldBlock" -> [kind |-> "Done", length |-> 0, will_close |-> will_close]
      [] OTHER -> [kind |-> "Closed"]

\* IoResult::Done { length: 0, will_close: true }
EofResult(res) == res.kind = "Done" /\ res.length = 0 /\ res.will_close

\* The part of write / read before the OS call: the used flag is raised.
MarkWriterUsed(s) == [s EXCEPT !.writer_used = TRUE]
MarkReaderUsed(s) == [s EXCEPT !.reader_used = TRUE]

\* A write drop that clears the reader's outstanding flag instead of the writer's.
DropWrite_ClearsReader(s) ==
    [s EXCEPT !.writer_discarded = ~s.writer_used,
              !.writer_used = FALSE,
              !.reader = FALSE]

\* Drop for TcpWriteOnce / TcpReadOnce on a stream that still exists.
DropWrite(s) ==
    [s EXCEPT !.writer_discarded = ~s.writer_used,
              !.writer_used = FALSE,
              !.writer = FALSE]
DropRead(s) ==
    [s EXCEPT !.reader_discarded = ~s.reader_used,
              !.reader_used = FALSE,
              !.reader = FALSE]

\* The OS half-shutdowns a drop attempts: shutdown(Shutdown::Write) or
\* shutdown(Shutdown::Read), whatever the used flag was.
DropWriteShutdown(s) == {"W"}
DropReadShutdown(s) == {"R"}

\* An upgrade that finds whatever stream the table holds.
Upgrade_AnyStream(t) == DOMAIN streams

\* Weak::upgrade: the record is alive iff the table still owns it.
Upgrade(t) == {a \in DOMAIN streams : streams[a].token = t}

NoOp == [op |-> "none"]
NoMerge == [replies |-> <<>>, n |-> 0]
NoHello == [who |-> "none"]

\* ------------------------------------------------------------------- Init
EmptyError ==
    [listen_error |-> FALSE, connect_errors |-> <<>>, disconnect_errors |-> <<>>,
     accept_error |-> "none", poll_error |-> FALSE]

is_empty(e) ==
    /\ ~e.listen_error
    /\ e.connect_errors = <<>>
    /\ e.disconnect_errors = <<>>
    /\ e.accept_error = "none"
    /\ ~e.poll_error

\* A result that forgets the accumulated failures.
into_result_AlwaysOk(e) == "Ok"

into_result(e) == IF is_empty(e) THEN "Ok" ELSE "Err"

Init ==
    /\ started = FALSE
    /\ request = EmptyRequest
    /\ listener = FALSE
    /\ streams = <<>>
    /\ in_progress = <<>>
    /\ blacklist = {}
    /\ last_token = 0
    /\ armed = <<>>
    /\ backlog = <<>>
    /\ pc = "idle"
    /\ blq = <<>>
    /\ conq = <<>>
    /\ events = <<>>
    /\ pr = <<>>
    /\ error = EmptyError
    /\ result = "none"
    /\ accepting = FALSE
    /\ held = [k \in Tokens \X Dirs |-> 0]
    /\ delivered = <<>>
    /\ lastOp = NoOp
    /\ issued = 0
    /\ merge = NoMerge
    /\ observer = [on |-> FALSE, eof |-> {}, closed |-> {}, hup |-> {}]
    /\ hello = NoHello

\* ------------------------------------------------- the state machine side
\* The state machine runs inside accept and between two calls of run.
Window == accepting \/ pc = "idle"

ProposerVars == <<started, request, listener, in_progress, blacklist, last_token,
                  armed, backlog, pc, blq, conq, events, pr, error, result,
                  accepting, delivered, issued, merge, hello>>

\* once.write(data): WriteOnce::write, then the drop of the consumed token.
TokenWrite(t) ==
    /\ Window
    /\ held[<<t, "W">>] > 0
    /\ held' = [held EXCEPT ![<<t, "W">>] = @ - 1]
    /\ IF Upgrade(t) # {}
       THEN LET a == CHOOSE x \in Upgrade(t) : TRUE
                s == streams[a]
            IN \E os \in OsIo :
                 /\ streams' = [streams EXCEPT ![a] = DropWrite(MarkWriterUsed(s))]
                 /\ lastOp' = [op |-> "write", token |-> t, dir |-> "W",
                               alive |-> TRUE, io |-> TRUE,
                               result |-> IoResult(os, s.writer_discarded),
                               shutdown |-> DropWriteShutdown(MarkWriterUsed(s))]
       ELSE /\ streams' = streams
            /\ lastOp' = [op |-> "write", token |-> t, dir |-> "W",
                          alive |-> FALSE, io |-> FALSE,
                          result |-> [kind |-> "Closed"], shutdown |-> {}]
    /\ observer' = [observer EXCEPT !.closed = @ \ {<<t, "W">>}]
    /\ UNCHANGED ProposerVars

\* once.read(buf): ReadOnce::read, then the drop of the consumed token.
TokenRead(t) ==
    /\ Window
    /\ held[<<t, "R">>] > 0
    /\ held' = [held EXCEPT ![<<t, "R">>] = @ - 1]
    /\ IF Upgrade(t) # {}
       THEN LET a == CHOOSE x \in Upgrade(t) : TRUE
                s == streams[a]
            IN \E os \in OsIo :
                 /\ streams' = [streams EXCEPT ![a] = DropRead(MarkReaderUsed(s))]
                 /\ lastOp' = [op |-> "read", token |-> t, dir |-> "R",
                               alive |-> TRUE, io |-> TRUE,
                               result |-> IoResult(os, s.reader_discarded),
                               shutdown |-> DropReadShutdown(MarkReaderUsed(s))]
                 /\ observer' = [observer EXCEPT
                        !.eof = IF observer.on /\ EofResult(IoResult(os, s.reader_discarded))
                                THEN @ \cup {t} ELSE @,
                        !.closed = @ \ {<<t, "R">>}]
       ELSE /\ streams' = streams
            /\ lastOp' = [op |-> "read", token |-> t, dir |-> "R",
                          alive |-> FALSE, io |-> FALSE,
                          result |-> [kind |-> "Closed"], shutdown |-> {}]
            /\ observer' = [observer EXCEPT !.closed = @ \ {<<t, "R">>}]
    /\ UNCHANGED ProposerVars

\* drop(once) of a token that was never used.
TokenDrop(t, d) ==
    /\ Window
    /\ held[<<t, d>>] > 0
    /\ held' = [held EXCEPT ![<<t, d>>] = @ - 1]
    /\ IF Upgrade(t) # {}
       THEN LET a == CHOOSE x \in Upgrade(t) : TRUE
                s == streams[a]
            IN /\ streams' = [streams EXCEPT
                                ![a] = IF d = "W" THEN DropWrite(s) ELSE DropRead(s)]
               /\ lastOp' = [op |-> "drop", token |-> t, dir |-> d,
                             alive |-> TRUE, io |-> FALSE,
                             result |-> [kind |-> "none"],
                             shutdown |-> IF d = "W" THEN DropWriteShutdown(s)
                                                     ELSE DropReadShutdown(s)]
       ELSE /\ streams' = streams
            /\ lastOp' = [op |-> "drop", token |-> t, dir |-> d,
                          alive |-> FALSE, io |-> FALSE,
                          result |-> [kind |-> "none"], shutdown |-> {}]
    /\ observer' = [observer EXCEPT !.closed = @ \ {<<t, d>>}]
    /\ UNCHANGED ProposerVars

\* The requests a state machine may answer a proposal with.
SMRequests ==
    [source : {"absent"} \cup Sources,
     blacklist : SeqsUpTo(BlacklistAddr, 1),
     connect : SeqsUpTo(Addr, 1)]

\* The number of commands in a request.
Commands(r) ==
    (IF r.source = "absent" THEN 0 ELSE 1) + Len(r.blacklist) + Len(r.connect)

\* Proposer::send_proposal, second half: self.request += state.accept(proposal).
AcceptReturn ==
    /\ accepting
    /\ \E r \in SMRequests :
         /\ Len(request.blacklist) + Len(r.blacklist) <= MaxPending
         /\ Len(request.connect) + Len(r.connect) <= MaxPending
         /\ issued + Commands(r) <= MaxCommands
         /\ issued' = issued + Commands(r)
         /\ request' = AddAssign(request, r)
    /\ accepting' = FALSE
    /\ lastOp' = NoOp
    /\ UNCHANGED <<started, listener, streams, in_progress, blacklist, last_token,
                   armed, backlog, pc, blq, conq, events, pr, error, result,
                   held, delivered, merge, observer, hello>>

\* ---------------------------------------------------------- the proposer
\* ConnectionId.token: token.0 as u16.
AsU16(t) == t % 65536

\* Proposer::allocate_token: the token handed out and the counter after it.
allocate_token(last) == [token |-> last, last_token |-> last + 1]

\* Proposer::send_proposal, first half: the proposal reaches State::accept.
send_proposal(kind) ==
    /\ delivered' = Append(delivered, kind)
    /\ accepting' = TRUE

\* Dropping a ManagedStream closes its socket, which leaves the poller.
Unregister(arm, toks) == [x \in DOMAIN arm \ toks |-> arm[x]]

\* A registration that does not move the token counter on.
register_stream_SameCounter(addr, interest) ==
    LET replaced == IF addr \in DOMAIN streams THEN {streams[addr].token} ELSE {}
    IN [token |-> last_token,
        last_token |-> last_token,
        streams |-> Put(streams, addr, ManagedStreamNew(last_token)),
        in_progress |-> Put(in_progress, last_token, addr),
        armed |-> Put(Unregister(armed, replaced), last_token, interest)]

\* Proposer::register_stream: the table, in_progress, the poller and the
\* counter after registering a new stream for addr with the given interest.
register_stream(addr, interest) ==
    LET al == allocate_token(last_token)
        replaced == IF addr \in DOMAIN streams THEN {streams[addr].token} ELSE {}
    IN [token |-> al.token,
        last_token |-> al.last_token,
        streams |-> Put(streams, addr, ManagedStreamNew(al.token)),
        in_progress |-> Put(in_progress, al.token, addr),
        armed |-> Put(Unregister(armed, replaced), al.token, interest)]

\* A run that sends Wake whether or not the proposer has started.
RunWake_EveryRun ==
    /\ pc = "idle" /\ ~accepting
    /\ started' = TRUE
    /\ send_proposal([kind |-> "Wake"])
    /\ result' = "Ok"
    /\ pc' = "returned"
    /\ lastOp' = NoOp
    /\ UNCHANGED <<hello, merge, observer, issued, request, listener, streams, in_progress, blacklist, last_token,
                   armed, backlog, blq, conq, events, pr, error, held>>

\* Proposer::run, first call: Wake and nothing else.
RunWake ==
    /\ pc = "idle" /\ ~accepting /\ ~started
    /\ started' = TRUE
    /\ send_proposal([kind |-> "Wake"])
    /\ result' = "Ok"
    /\ pc' = "returned"
    /\ lastOp' = NoOp
    /\ UNCHANGED <<hello, merge, observer, issued, request, listener, streams, in_progress, blacklist, last_token,
                   armed, backlog, blq, conq, events, pr, error, held>>

\* A set_source that keeps the previous listener when the bind fails.
set_source_KeepsOnFailure(source, bind_ok) ==
    [listener |-> IF source = "Port" /\ ~bind_ok THEN listener
                  ELSE source = "Port" /\ bind_ok,
     armed |-> IF source = "Port" /\ bind_ok
               THEN Put(Unregister(armed, {LISTENER}), LISTENER, {"R"})
               ELSE IF source = "Port" THEN armed
               ELSE Unregister(armed, {LISTENER}),
     failed |-> source = "Port" /\ ~bind_ok]

\* Proposer::set_source: the listener and its registration afterwards.
set_source(source, bind_ok) ==
    [listener |-> source = "Port" /\ bind_ok,
     armed |-> IF source = "Port" /\ bind_ok
               THEN Put(Unregister(armed, {LISTENER}), LISTENER, {"R"})
               ELSE Unregister(armed, {LISTENER}),
     failed |-> source = "Port" /\ ~bind_ok]

\* run_inner, source step, up to the take of the blacklist.
ApplySource ==
    /\ pc = "idle" /\ ~accepting /\ started
    /\ \E bind_ok \in BOOLEAN :
         IF request.source # "absent"
         THEN LET r == set_source(request.source, bind_ok)
              IN /\ listener' = r.listener
                 /\ armed' = r.armed
                 /\ backlog' = <<>>
                 /\ error' = [EmptyError EXCEPT !.listen_error = r.failed]
                 /\ lastOp' = [op |-> "set_source", source |-> request.source,
                               had |-> listener]
         ELSE /\ bind_ok
              /\ UNCHANGED <<listener, armed, backlog>>
              /\ error' = EmptyError
              /\ lastOp' = NoOp
    /\ blq' = request.blacklist
    /\ request' = [request EXCEPT !.source = "absent", !.blacklist = <<>>]
    /\ pc' = "blacklist"
    /\ UNCHANGED <<hello, merge, observer, issued, started, streams, in_progress, blacklist, last_token, conq,
                   events, pr, result, accepting, held, delivered>>

\* A disconnect that shuts the stream down but leaves it in the table.
disconnect_peer_KeepsStream(addr) ==
    [streams |-> streams, armed |-> armed, found |-> addr \in DOMAIN streams]

\* Proposer::disconnect_peer: the table and the poller afterwards.
disconnect_peer(addr) ==
    IF addr \in DOMAIN streams
    THEN [streams |-> Remove(streams, addr),
          armed |-> Unregister(armed, {streams[addr].token}),
          found |-> TRUE]
    ELSE [streams |-> streams, armed |-> armed, found |-> FALSE]

\* run_inner, blacklist step: one address of the loop.
ApplyBlacklist ==
    /\ pc = "blacklist" /\ blq # <<>>
    /\ LET addr == Head(blq)
           r == disconnect_peer(addr)
       IN /\ blacklist' = blacklist \cup {Ip(addr)}
          /\ streams' = r.streams
          /\ armed' = r.armed
          /\ \E shutdown_ok \in BOOLEAN :
               /\ (~r.found => shutdown_ok)
               /\ error' = IF shutdown_ok THEN error
                           ELSE [error EXCEPT !.disconnect_errors = Append(@, addr)]
               /\ lastOp' = IF r.found
                            THEN [op |-> "discard", token |-> streams[addr].token,
                                  addr |-> addr, ok |-> shutdown_ok]
                            ELSE NoOp
    /\ blq' = Tail(blq)
    /\ UNCHANGED <<hello, merge, observer, issued, started, request, listener, in_progress, last_token, backlog,
                   pc, conq, events, pr, result, accepting, held, delivered>>

\* Proposer::reregister: the table, in_progress and the poller afterwards.
reregister ==
    LET kept == {a \in DOMAIN streams : ~closed(streams[a])}
        purged == {streams[a].token : a \in DOMAIN streams \ kept}
        rearm == {a \in kept : interests(streams[a]) # {}}
        tok(a) == streams[a].token
        arm1 == Unregister(armed, purged)
    IN [streams |-> [a \in kept |-> streams[a]],
        armed |-> [x \in DOMAIN arm1 \cup {tok(a) : a \in rearm} |->
                     IF \E a \in rearm : tok(a) = x
                     THEN interests(streams[CHOOSE a \in rearm : tok(a) = x])
                     ELSE arm1[x]],
        in_progress |-> [x \in DOMAIN in_progress \cup {tok(a) : a \in rearm} |->
                           IF \E a \in rearm : tok(a) = x
                           THEN CHOOSE a \in rearm : tok(a) = x
                           ELSE in_progress[x]]]

\* A take of the connect list that leaves the list in the pending request.
Reregister_KeepsConnects ==
    /\ pc = "blacklist" /\ blq = <<>>
    /\ LET r == reregister
       IN /\ streams' = r.streams
          /\ armed' = r.armed
          /\ in_progress' = r.in_progress
    /\ conq' = request.connect
    /\ request' = request
    /\ pc' = "connect"
    /\ lastOp' = NoOp
    /\ UNCHANGED <<hello, merge, observer, issued, started, listener, blacklist, last_token, backlog, blq, events,
                   pr, error, result, accepting, held, delivered>>

\* run_inner, re-registration, up to the take of the connect list.
Reregister ==
    /\ pc = "blacklist" /\ blq = <<>>
    /\ LET r == reregister
       IN /\ streams' = r.streams
          /\ armed' = r.armed
          /\ in_progress' = r.in_progress
    /\ conq' = request.connect
    /\ request' = [request EXCEPT !.connect = <<>>]
    /\ pc' = "connect"
    /\ lastOp' = NoOp
    /\ UNCHANGED <<hello, merge, observer, issued, started, listener, blacklist, last_token, backlog, blq, events,
                   pr, error, result, accepting, held, delivered>>

\* The Connection proposal of the connect step.  The field step is not part
\* of the proposal: it records which step of run_inner sent it.
ConnectProposal(addr, token) ==
    [kind |-> "Connection", addr |-> addr, incoming |-> TRUE, id |-> AsU16(token),
     step |-> "connect"]

\* The Connection proposal of the accept branch.
AcceptProposal(addr, token) ==
    [kind |-> "Connection", addr |-> addr, incoming |-> TRUE, id |-> AsU16(token),
     step |-> "accept"]

\* run_inner, connect step: one address of the loop (Proposer::connect_peer).
ApplyConnect ==
    /\ pc = "connect" /\ conq # <<>> /\ ~accepting
    /\ LET addr == Head(conq)
       IN \/ /\ addr \in DOMAIN streams
             /\ UNCHANGED <<streams, in_progress, armed, last_token, error,
                            delivered, accepting>>
          \/ /\ addr \notin DOMAIN streams
             /\ error' = [error EXCEPT !.connect_errors = Append(@, addr)]
             /\ UNCHANGED <<streams, in_progress, armed, last_token,
                            delivered, accepting>>
          \/ /\ addr \notin DOMAIN streams
             /\ last_token < MaxToken
             /\ LET r == register_stream(addr, {"W"})
                IN /\ Cardinality(DOMAIN r.streams) <= MaxStreams
                   /\ streams' = r.streams
                   /\ in_progress' = r.in_progress
                   /\ armed' = r.armed
                   /\ last_token' = r.last_token
                   /\ send_proposal(ConnectProposal(addr, r.token))
             /\ error' = error
    /\ conq' = Tail(conq)
    /\ lastOp' = NoOp
    /\ UNCHANGED <<hello, merge, observer, issued, started, request, listener, blacklist, backlog, pc, blq,
                   events, pr, result, held>>

\* ------------------------------------------------------ poll and dispatch
\* A peer connects to the listening socket while the proposer waits in poll.
PeerConnects ==
    /\ pc = "connect" /\ conq = <<>> /\ ~accepting
    /\ listener
    /\ Len(backlog) < MaxBacklog
    /\ \E a \in Addr :
         /\ \A i \in 1 .. Len(backlog) : backlog[i] # a
         /\ backlog' = Append(backlog, a)
    /\ UNCHANGED <<hello, merge, observer, issued, started, request, listener, streams, in_progress, blacklist,
                   last_token, armed, pc, blq, conq, events, pr, error, result,
                   accepting, held, delivered, lastOp>>

\* The batches one poll may return: one event per registered source, at most
\* events_capacity of them, each with the interest armed for it at that time.
EventBatches ==
    {q \in SeqsUpTo({[token |-> t, interest |-> armed[t]] : t \in DOMAIN armed},
                    MaxEvents) :
        \A i, j \in 1 .. Len(q) : i # j => q[i].token # q[j].token}

\* The readiness bits an event may carry: a direction is reported ready only
\* if it was armed; hang-up and error come unasked.  They are drawn when the
\* dispatch loop reaches the event.
EventBits(ev) ==
    {e \in [readable : BOOLEAN, writable : BOOLEAN,
            read_closed : BOOLEAN, write_closed : BOOLEAN] :
        /\ e.readable => "R" \in ev.interest
        /\ e.writable => "W" \in ev.interest
        /\ e.readable \/ e.writable \/ e.write_closed
        /\ (e.read_closed /\ ~e.readable) => e.write_closed}

\* A poll that does not wait for the connect loop to end.
Poll_BeforeConnects ==
    /\ pc = "connect" /\ ~accepting
    /\ \/ /\ error' = [error EXCEPT !.poll_error = TRUE]
          /\ result' = "Err"
          /\ pc' = "returned"
          /\ UNCHANGED <<events, delivered, accepting>>
       \/ /\ \E q \in EventBatches :
               /\ events' = q
               /\ IF q = <<>>
                  THEN send_proposal([kind |-> "Idle"])
                  ELSE UNCHANGED <<delivered, accepting>>
          /\ pc' = "dispatch"
          /\ UNCHANGED <<error, result>>
    /\ lastOp' = NoOp
    /\ UNCHANGED <<hello, merge, observer, issued, started, request, listener, streams, in_progress,
                   blacklist, last_token, armed, backlog, blq, conq, pr, held>>

\* run_inner, poll step, with the Idle proposal of an empty batch.
Poll ==
    /\ pc = "connect" /\ conq = <<>> /\ ~accepting
    /\ \/ /\ error' = [error EXCEPT !.poll_error = TRUE]   \* Err(e): early return
          /\ result' = "Err"
          /\ pc' = "returned"
          /\ UNCHANGED <<events, delivered, accepting>>
       \/ /\ \E q \in EventBatches :                        \* Ok(()) or Interrupted
               /\ events' = q
               /\ IF q = <<>>
                  THEN send_proposal([kind |-> "Idle"])
                  ELSE UNCHANGED <<delivered, accepting>>
          /\ pc' = "dispatch"
          /\ UNCHANGED <<error, result>>
    /\ lastOp' = NoOp
    /\ UNCHANGED <<hello, merge, observer, issued, started, request, listener, streams, in_progress, blacklist,
                   last_token, armed, backlog, blq, conq, pr, held>>

\* What listener.accept() answers: a waiting peer, WouldBlock when none waits,
\* or another failure.
AcceptOutcomes ==
    (IF backlog # <<>> THEN {"Ok"} ELSE {"WouldBlock"}) \cup {"Other"}

\* An accept branch without the blacklist test.
Blacklisted_Never(addr) == FALSE

\* The blacklist test of the accept branch: the peer's ip, whatever its port.
Blacklisted(addr) == Ip(addr) \in blacklist

\* run_inner, dispatch of the listener event: one accept.
DispatchListener ==
    /\ pc = "dispatch" /\ ~accepting /\ pr = <<>>
    /\ events # <<>> /\ Head(events).token = LISTENER
    /\ IF ~listener
       THEN /\ lastOp' = NoOp
            /\ UNCHANGED <<streams, in_progress, armed, last_token, backlog, error,
                           delivered, accepting>>
       ELSE \E out \in AcceptOutcomes :
              IF out = "Ok"
              THEN LET addr == Head(backlog)
                   IN /\ backlog' = Tail(backlog)
                      /\ error' = error
                      /\ lastOp' = [op |-> "accept", addr |-> addr,
                                    registered |-> ~Blacklisted(addr)]
                      /\ IF ~Blacklisted(addr)
                         THEN /\ last_token < MaxToken
                              /\ LET r == register_stream(addr, {"R"})
                                 IN /\ Cardinality(DOMAIN r.streams) <= MaxStreams
                                    /\ streams' = r.streams
                                    /\ in_progress' = r.in_progress
                                    /\ armed' = r.armed
                                    /\ last_token' = r.last_token
                                    /\ send_proposal(AcceptProposal(addr, r.token))
                         ELSE UNCHANGED <<streams, in_progress, armed, last_token,
                                          delivered, accepting>>
              ELSE /\ error' = [error EXCEPT !.accept_error = out]
                   /\ lastOp' = NoOp
                   /\ UNCHANGED <<streams, in_progress, armed, last_token, backlog,
                                  delivered, accepting>>
    /\ events' = Tail(events)
    /\ UNCHANGED <<hello, merge, observer, issued, started, request, listener, blacklist, pc, blq, conq, pr,
                   result, held>>

\* The connection branch of the dispatch for one event on stream s: the
\* stream afterwards, the proposals pushed to pr, whether a mint failed, and
\* the minted directions the event reported closed.
DispatchMint(s, e) ==
    LET id == AsU16(s.token)
        w_ok == e.writable /\ CanWriteOnce(s)
        s1 == IF w_ok
              THEN (IF e.write_closed THEN set_write_closed(write_once(s))
                                      ELSE write_once(s))
              ELSE s
        r_ok == e.readable /\ CanReadOnce(s1)
        s2 == IF r_ok
              THEN (IF e.read_closed THEN set_read_closed(read_once(s1))
                                     ELSE read_once(s1))
              ELSE s1
    IN [stream |-> s2,
        pr |-> (IF w_ok THEN <<[kind |-> "OnWritable", id |-> id, token |-> s.token]>>
                        ELSE <<>>)
               \o (IF r_ok THEN <<[kind |-> "OnReadable", id |-> id, token |-> s.token]>>
                           ELSE <<>>),
        mint_failed |-> (e.writable /\ ~w_ok) \/ (e.readable /\ ~r_ok),
        minted |-> (IF w_ok THEN {"W"} ELSE {}) \cup (IF r_ok THEN {"R"} ELSE {}),
        reported |-> (IF w_ok /\ e.write_closed THEN {"W"} ELSE {})
                     \cup (IF r_ok /\ e.read_closed THEN {"R"} ELSE {})]

\* run_inner, dispatch of the connection event ev carrying the bits e.  A
\* failed debug_assert panics in a debug build and is skipped in a release
\* build.
DispatchEvent(ev, e) ==
    /\ lastOp' = [op |-> "event", token |-> ev.token,
                  readable |-> e.readable, writable |-> e.writable]
    /\ IF ev.token \in DOMAIN in_progress
       THEN LET addr == in_progress[ev.token]
            IN /\ in_progress' = Remove(in_progress, ev.token)
               /\ IF addr \in DOMAIN streams
                  THEN \E build \in {"debug", "release"} :
                         LET r == DispatchMint(streams[addr], e)
                             tok == streams[addr].token
                         IN /\ streams' = [streams EXCEPT ![addr] = r.stream]
                            /\ pr' = r.pr
                            /\ pc' = IF r.mint_failed /\ build = "debug"
                                     THEN "panic" ELSE "dispatch"
                            /\ observer' =
                                 IF observer.on
                                 THEN [observer EXCEPT
                                         !.closed =
                                           (@ \ {<<tok, d>> : d \in r.minted})
                                           \cup {<<tok, d>> : d \in r.reported},
                                         !.hup =
                                           IF e.read_closed /\ e.write_closed
                                           THEN @ \cup {tok} ELSE @]
                                 ELSE observer
                  ELSE /\ pc' = "panic"       \* streams.get(&addr).unwrap()
                       /\ UNCHANGED <<streams, pr, observer>>
       ELSE UNCHANGED <<in_progress, streams, pr, pc, observer>>
    /\ events' = Tail(events)
    /\ UNCHANGED <<hello, merge, issued, started, request, listener, blacklist, last_token,
                   armed, backlog, blq, conq, error, result, accepting, held, delivered>>

\* run_inner, dispatch of a connection event with the bits the poller reports.
DispatchStream ==
    /\ pc = "dispatch" /\ ~accepting /\ pr = <<>>
    /\ events # <<>> /\ Head(events).token # LISTENER
    /\ \E e \in EventBits(Head(events)) : DispatchEvent(Head(events), e)

\* run_inner, the loop sending the proposals of one event.
SendReadiness ==
    /\ pc = "dispatch" /\ ~accepting /\ pr # <<>>
    /\ LET p == Head(pr)
           d == IF p.kind = "OnWritable" THEN "W" ELSE "R"
       IN /\ send_proposal(p)
          /\ held' = [held EXCEPT ![<<p.token, d>>] = @ + 1]
    /\ pr' = Tail(pr)
    /\ lastOp' = NoOp
    /\ UNCHANGED <<hello, merge, observer, issued, started, request, listener, streams, in_progress, blacklist,
                   last_token, armed, backlog, pc, blq, conq, events, error, result>>

\* run_inner, the end: error.into_result().
Finish ==
    /\ pc = "dispatch" /\ ~accepting /\ pr = <<>> /\ events = <<>>
    /\ result' = into_result(error)
    /\ pc' = "returned"
    /\ lastOp' = NoOp
    /\ UNCHANGED <<hello, merge, observer, issued, started, request, listener, streams, in_progress, blacklist,
                   last_token, armed, backlog, blq, conq, events, pr, error,
                   accepting, held, delivered>>

\* The caller has the result of run; the locals of the call are gone.
Return ==
    /\ pc = "returned" /\ ~accepting
    /\ pc' = "idle"
    /\ result' = "none"
    /\ error' = EmptyError
    /\ events' = <<>>
    /\ delivered' = <<>>
    /\ lastOp' = NoOp
    /\ UNCHANGED <<hello, merge, observer, issued, started, request, listener, streams, in_progress, blacklist,
                   last_token, armed, backlog, blq, conq, pr, accepting, held>>

Next ==
    \/ RunWake
    \/ ApplySource
    \/ ApplyBlacklist
    \/ Reregister
    \/ ApplyConnect
    \/ PeerConnects
    \/ Poll
    \/ DispatchListener
    \/ DispatchStream
    \/ SendReadiness
    \/ Finish
    \/ Return
    \/ AcceptReturn
    \/ \E t \in Tokens : TokenWrite(t)
    \/ \E t \in Tokens : TokenRead(t)
    \/ \E t \in Tokens, d \in Dirs : TokenDrop(t, d)

Spec == Init /\ [][Next]_vars

\* ------------------------------------------------- merging the requests
\* The requests merged here: any source, and lists over all the addresses.
MergeRequests ==
    [source : {"absent"} \cup Sources,
     blacklist : SeqsUpTo(Addr, 1),
     connect : SeqsUpTo(Addr, 1)]

\* A started proposer between two calls of run, with the replies the state
\* machine will give to the proposals it receives before the next call.
InitMerge ==
    /\ started = TRUE
    /\ request = EmptyRequest
    /\ listener = FALSE
    /\ streams = <<>>
    /\ in_progress = <<>>
    /\ blacklist = {}
    /\ last_token = 0
    /\ armed = <<>>
    /\ backlog = <<>>
    /\ pc = "idle"
    /\ blq = <<>>
    /\ conq = <<>>
    /\ events = <<>>
    /\ pr = <<>>
    /\ error = EmptyError
    /\ result = "none"
    /\ accepting = FALSE
    /\ held = [k \in Tokens \X Dirs |-> 0]
    /\ delivered = <<>>
    /\ lastOp = NoOp
    /\ issued = 0
    /\ merge \in [replies : [1 .. MergeLen -> MergeRequests], n : {0}]
    /\ observer = [on |-> FALSE, eof |-> {}, closed |-> {}, hup |-> {}]
    /\ hello = NoHello

\* Proposer::send_proposal: self.request += state.accept(proposal), for a
\* proposal that reaches the state machine between two calls of run.
MergeReply ==
    /\ pc = "idle"
    /\ merge.n < Len(merge.replies)
    /\ request' = AddAssign(request, merge.replies[merge.n + 1])
    /\ merge' = [merge EXCEPT !.n = @ + 1]
    /\ UNCHANGED <<started, listener, streams, in_progress, blacklist, last_token,
                   armed, backlog, pc, blq, conq, events, pr, error, result,
                   accepting, held, delivered, lastOp, issued, observer, hello>>

NextMerge ==
    \/ MergeReply
    \/ ApplySource

SpecMerge == InitMerge /\ [][NextMerge]_vars

\* ------------------------------------------------- applying the commands
\* The requests answered here: blacklist and connect commands only.
ApplyRequests ==
    [source : {"absent"},
     blacklist : SeqsUpTo(BlacklistAddr, 1),
     connect : SeqsUpTo(Addr, MaxPending)]

\* A started proposer between two calls of run; the replies of the state
\* machine that hold a command are recorded in merge as it gives them.
InitApply ==
    /\ started = TRUE
    /\ request = EmptyRequest
    /\ listener = FALSE
    /\ streams = <<>>
    /\ in_progress = <<>>
    /\ blacklist = {}
    /\ last_token = 0
    /\ armed = <<>>
    /\ backlog = <<>>
    /\ pc = "idle"
    /\ blq = <<>>
    /\ conq = <<>>
    /\ events = <<>>
    /\ pr = <<>>
    /\ error = EmptyError
    /\ result = "none"
    /\ accepting = FALSE
    /\ held = [k \in Tokens \X Dirs |-> 0]
    /\ delivered = <<>>
    /\ lastOp = NoOp
    /\ issued = 0
    /\ merge = NoMerge
    /\ observer = [on |-> FALSE, eof |-> {}, closed |-> {}, hup |-> {}]
    /\ hello = NoHello

\* Proposer::send_proposal, second half: self.request += state.accept(proposal),
\* for a state machine that gives at most MaxReplies replies holding a command.
AcceptRecorded ==
    /\ accepting
    /\ \E r \in ApplyRequests :
         /\ request' = AddAssign(request, r)
         /\ IF r = EmptyRequest
            THEN merge' = merge
            ELSE /\ merge.n < MaxReplies
                 /\ merge' = [replies |-> Append(merge.replies, r), n |-> merge.n + 1]
    /\ accepting' = FALSE
    /\ lastOp' = NoOp
    /\ UNCHANGED <<started, listener, streams, in_progress, blacklist, last_token,
                   armed, backlog, pc, blq, conq, events, pr, error, result,
                   held, delivered, issued, observer, hello>>

NextApply ==
    \/ ApplySource
    \/ ApplyBlacklist
    \/ Reregister
    \/ ApplyConnect
    \/ Poll
    \/ DispatchStream
    \/ SendReadiness
    \/ Finish
    \/ Return
    \/ AcceptRecorded
    \/ \E t \in Tokens, d \in Dirs : TokenDrop(t, d)

SpecApply == InitApply /\ [][NextApply]_vars

\* ------------------------------------------------- allocating the tokens
\* ConnectionId { poll_id: self.id, token: token.0 as u16 }
ConnectionId(t) == [poll_id |-> "id", token |-> AsU16(t)]

\* A proposer between two calls of run with no connection open: a new one,
\* or one whose counter has nearly filled the 16 bits of ConnectionId.token.
InitIds ==
    /\ started = TRUE
    /\ request = EmptyRequest
    /\ listener = FALSE
    /\ streams = <<>>
    /\ in_progress = <<>>
    /\ blacklist = {}
    /\ last_token \in {0, 2^16 - MaxToken}
    /\ armed = <<>>
    /\ backlog = <<>>
    /\ pc = "idle"
    /\ blq = <<>>
    /\ conq = <<>>
    /\ events = <<>>
    /\ pr = <<>>
    /\ error = EmptyError
    /\ result = "none"
    /\ accepting = FALSE
    /\ held = [k \in Tokens \X Dirs |-> 0]
    /\ delivered = <<>>
    /\ lastOp = NoOp
    /\ issued = 0
    /\ merge = NoMerge
    /\ observer = [on |-> FALSE, eof |-> {}, closed |-> {}, hup |-> {}]
    /\ hello = NoHello

\* Proposer::allocate_token, as register_stream calls it for each connection.
AllocateToken ==
    /\ last_token < 2^16 + MaxToken
    /\ last_token' = allocate_token(last_token).last_token
    /\ lastOp' = [op |-> "allocate", token |-> allocate_token(last_token).token]
    /\ UNCHANGED <<started, request, listener, streams, in_progress, blacklist,
                   armed, backlog, pc, blq, conq, events, pr, error, result,
                   accepting, held, delivered, issued, merge, observer, hello>>

NextIds == AllocateToken

SpecIds == InitIds /\ [][NextIds]_vars

\* ------------------------------------------- one established connection
\* The proposer between two calls of run, after the connect to <<1, 1>>
\* succeeded in an earlier call; the state machine issues no more commands
\* and its reads are observed.
InitHalfClose ==
    /\ started = TRUE
    /\ request = EmptyRequest
    /\ listener = FALSE
    /\ streams = Put(<<>>, <<1, 1>>, ManagedStreamNew(0))
    /\ in_progress = Put(<<>>, 0, <<1, 1>>)
    /\ blacklist = {}
    /\ last_token = 1
    /\ armed = Put(<<>>, 0, {"W"})
    /\ backlog = <<>>
    /\ pc = "idle"
    /\ blq = <<>>
    /\ conq = <<>>
    /\ events = <<>>
    /\ pr = <<>>
    /\ error = EmptyError
    /\ result = "none"
    /\ accepting = FALSE
    /\ held = [k \in Tokens \X Dirs |-> 0]
    /\ delivered = <<>>
    /\ lastOp = NoOp
    /\ issued = MaxCommands
    /\ merge = NoMerge
    /\ observer = [on |-> TRUE, eof |-> {}, closed |-> {}, hup |-> {}]
    /\ hello = NoHello

NextHalfClose ==
    \/ ApplySource
    \/ Reregister
    \/ Poll
    \/ DispatchStream
    \/ SendReadiness
    \/ Finish
    \/ Return
    \/ AcceptReturn
    \/ \E t \in Tokens : TokenWrite(t)
    \/ \E t \in Tokens : TokenRead(t)
    \/ \E t \in Tokens, d \in Dirs : TokenDrop(t, d)

SpecHalfClose == InitHalfClose /\ [][NextHalfClose]_vars

\* ------------------------------------------------ a connection hung up
\* The established connection with a poller that does not fail and, once it
\* has reported both directions of a socket closed, keeps reporting the
\* socket: a hung-up socket is ready for every direction it is registered for,
\* and every event for it carries both closed bits.

\* The poll returns; a registered socket that is hung up is in the batch.
PollHungUp ==
    /\ Poll
    /\ pc' = "dispatch"
    /\ \A t \in observer.hup \cap DOMAIN armed :
          \E i \in 1 .. Len(events') : events'[i].token = t

\* The bits of the event ev.
HungUpBits(ev) ==
    IF ev.token \in observer.hup
    THEN {[readable |-> "R" \in ev.interest, writable |-> "W" \in ev.interest,
           read_closed |-> TRUE, write_closed |-> TRUE]}
    ELSE EventBits(ev)

DispatchHungUp ==
    /\ pc = "dispatch" /\ ~accepting /\ pr = <<>>
    /\ events # <<>> /\ Head(events).token # LISTENER
    /\ \E e \in HungUpBits(Head(events)) : DispatchEvent(Head(events), e)

\* The caller's loop around run, and run itself.
RunStep ==
    \/ ApplySource
    \/ Reregister
    \/ PollHungUp
    \/ DispatchHungUp
    \/ SendReadiness
    \/ Finish
    \/ Return
    \/ AcceptReturn

\* The state machine uses or drops the token <<t, d>>.
TokenStep(t, d) ==
    \/ d = "W" /\ TokenWrite(t)
    \/ d = "R" /\ TokenRead(t)
    \/ TokenDrop(t, d)

NextHungUp ==
    \/ ApplySource
    \/ Reregister
    \/ PollHungUp
    \/ DispatchHungUp
    \/ SendReadiness
    \/ Finish
    \/ Return
    \/ AcceptReturn
    \/ \E t \in Tokens : TokenWrite(t)
    \/ \E t \in Tokens : TokenRead(t)
    \/ \E t \in Tokens, d \in Dirs : TokenDrop(t, d)

\* The caller keeps calling run, and the state machine eventually uses or
\* drops every token it is handed.
FairHungUp ==
    /\ WF_vars(RunStep)
    /\ \A t \in Tokens, d \in Dirs : SF_vars(TokenStep(t, d))

SpecHungUp == InitHalfClose /\ [][NextHungUp]_vars /\ FairHungUp

\* ---------------------------------------------------- the hello handshake
\* examples/hello_world.rs: two threads, each with its own Proposer and its
\* own ExampleState, connected through the loopback interface.  The variables
\* of the proposer describe the thread that is running; the other thread's
\* are parked in hello until the scheduler switches.
Threads == {"initiator", "responder"}
Other(w) == IF w = "initiator" THEN "responder" ELSE "initiator"

\* ADDRESS, where the responder listens, and the address of the initiator's
\* socket.
ResponderAddr == <<1, 1>>
InitiatorAddr == <<1, 2>>

\* The Proposer and the sockets of the running thread.
ThreadState ==
    [started |-> started,
     request |-> request,
     listener |-> listener,
     streams |-> streams,
     in_progress |-> in_progress,
     blacklist |-> blacklist,
     last_token |-> last_token,
     armed |-> armed,
     backlog |-> backlog,
     pc |-> pc,
     blq |-> blq,
     conq |-> conq,
     events |-> events,
     pr |-> pr,
     error |-> error,
     result |-> result,
     accepting |-> accepting,
     held |-> held,
     delivered |-> delivered,
     lastOp |-> lastOp]

\* Proposer::new
NewThread ==
    [started |-> FALSE, request |-> EmptyRequest, listener |-> FALSE,
     streams |-> <<>>, in_progress |-> <<>>, blacklist |-> {}, last_token |-> 0,
     armed |-> <<>>, backlog |-> <<>>, pc |-> "idle", blq |-> <<>>, conq |-> <<>>,
     events |-> <<>>, pr |-> <<>>, error |-> EmptyError, result |-> "none",
     accepting |-> FALSE, held |-> [k \in Tokens \X Dirs |-> 0],
     delivered |-> <<>>, lastOp |-> NoOp]

ThreadOf(w) == IF hello.who = w THEN ThreadState ELSE hello.parked

\* main: both threads have their state machine in Empty and a new Proposer.
InitHello ==
    /\ started = FALSE
    /\ request = EmptyRequest
    /\ listener = FALSE
    /\ streams = <<>>
    /\ in_progress = <<>>
    /\ blacklist = {}
    /\ last_token = 0
    /\ armed = <<>>
    /\ backlog = <<>>
    /\ pc = "idle"
    /\ blq = <<>>
    /\ conq = <<>>
    /\ events = <<>>
    /\ pr = <<>>
    /\ error = EmptyError
    /\ result = "none"
    /\ accepting = FALSE
    /\ held = [k \in Tokens \X Dirs |-> 0]
    /\ delivered = <<>>
    /\ lastOp = NoOp
    /\ issued = 0
    /\ merge = NoMerge
    /\ observer = [on |-> FALSE, eof |-> {}, closed |-> {}, hup |-> {}]
    /\ hello = [who |-> "responder",
                state |-> [w \in Threads |-> "Empty"],
                parked |-> NewThread,
                wire |-> [syn |-> FALSE, data |-> FALSE, fin |-> FALSE],
                trace |-> [w \in Threads |-> <<>>]]

\* The scheduler lets the other thread run.
Switch ==
    /\ hello' = [hello EXCEPT !.who = Other(@), !.parked = ThreadState]
    /\ started' = hello.parked.started
    /\ request' = hello.parked.request
    /\ listener' = hello.parked.listener
    /\ streams' = hello.parked.streams
    /\ in_progress' = hello.parked.in_progress
    /\ blacklist' = hello.parked.blacklist
    /\ last_token' = hello.parked.last_token
    /\ armed' = hello.parked.armed
    /\ backlog' = hello.parked.backlog
    /\ pc' = hello.parked.pc
    /\ blq' = hello.parked.blq
    /\ conq' = hello.parked.conq
    /\ events' = hello.parked.events
    /\ pr' = hello.parked.pr
    /\ error' = hello.parked.error
    /\ result' = hello.parked.result
    /\ accepting' = hello.parked.accepting
    /\ held' = hello.parked.held
    /\ delivered' = hello.parked.delivered
    /\ lastOp' = hello.parked.lastOp
    /\ UNCHANGED <<issued, merge, observer>>

\* The connection request of the initiator reaches the listening socket of
\* the responder and waits in its accept queue; the connection is established.
HelloDeliver ==
    /\ ~hello.wire.syn
    /\ ThreadOf("initiator").streams # <<>>
    /\ ThreadOf("responder").listener
    /\ IF hello.who = "responder"
       THEN /\ backlog' = Append(backlog, InitiatorAddr)
            /\ hello' = [hello EXCEPT !.wire.syn = TRUE]
       ELSE /\ backlog' = backlog
            /\ hello' = [hello EXCEPT !.wire.syn = TRUE,
                                      !.parked.backlog = Append(@, InitiatorAddr)]
    /\ UNCHANGED <<started, request, listener, streams, in_progress, blacklist,
                   last_token, armed, pc, blq, conq, events, pr, error, result,
                   accepting, held, delivered, lastOp, issued, merge, observer>>

\* while !can_terminate() { proposer.run(..).unwrap() }, first call.  The
\* initiator is created after thread::sleep(100 ms), which the responder
\* uses to bind its listener.
HelloWake ==
    /\ hello.state[hello.who] = "Empty"
    /\ hello.who = "initiator" => ThreadOf("responder").listener
    /\ RunWake

\* A later call of run, up to the take of the blacklist; the bind succeeds.
HelloSource ==
    /\ hello.state[hello.who] = "Empty"
    /\ ApplySource
    /\ error' = EmptyError

\* The connect step; the non-blocking connect is initiated.
HelloConnect ==
    /\ ApplyConnect
    /\ accepting'

\* What the poller reports for a stream of the running thread whose
\* registration is ev: writable once the connection is established, readable
\* once the peer's bytes or its half-close have arrived.
ReadyBits(ev) ==
    IF hello.who = "responder"
    THEN [readable |-> "R" \in ev.interest /\ hello.wire.data,
          writable |-> "W" \in ev.interest,
          read_closed |-> "R" \in ev.interest /\ hello.wire.data,
          write_closed |-> FALSE]
    ELSE [readable |-> "R" \in ev.interest /\ hello.wire.fin,
          writable |-> "W" \in ev.interest /\ hello.wire.syn,
          read_closed |-> "R" \in ev.interest /\ hello.wire.fin,
          write_closed |-> FALSE]

\* The registered sources that are ready.
ReadySources ==
    {t \in DOMAIN armed :
        IF t = LISTENER THEN backlog # <<>>
        ELSE LET b == ReadyBits([token |-> t, interest |-> armed[t]])
             IN b.readable \/ b.writable}

\* The poll returns the ready sources, or none after the timeout.
HelloPoll ==
    /\ Poll
    /\ pc' = "dispatch"
    /\ Len(events') = Cardinality(ReadySources)
    /\ {events'[i].token : i \in 1 .. Len(events')} = ReadySources

\* The listener event: accept returns the waiting connection.
HelloDispatchListener ==
    /\ DispatchListener
    /\ error' = error

HelloDispatchStream ==
    /\ pc = "dispatch" /\ ~accepting /\ pr = <<>>
    /\ events # <<>> /\ Head(events).token # LISTENER
    /\ DispatchEvent(Head(events), ReadyBits(Head(events)))

\* The proposal State::accept is handling.
Accepted == delivered[Len(delivered)]
TokenDir(kind) == IF kind = "OnWritable" THEN "W" ELSE "R"

\* (Empty, OnWritable) in the initiator: once.write("hello, world!").
HelloWrite ==
    /\ accepting
    /\ hello.who = "initiator" /\ hello.state[hello.who] = "Empty"
    /\ Accepted.kind = "OnWritable"
    /\ TokenWrite(Accepted.token)
    /\ lastOp'.result.kind = "Done"
    /\ lastOp'.result.length = 1

\* (Empty, OnReadable) in the responder: once.read(&mut buf).
HelloRead ==
    /\ accepting
    /\ hello.who = "responder" /\ hello.state[hello.who] = "Empty"
    /\ Accepted.kind = "OnReadable"
    /\ TokenRead(Accepted.token)
    /\ lastOp'.result.kind = "Done"
    /\ lastOp'.result.length = 1

\* drop(once) in the other arms, and the drop of the proposal in (Done, _).
HelloDrop ==
    /\ accepting
    /\ Accepted.kind \in {"OnWritable", "OnReadable"}
    /\ \/ hello.state[hello.who] = "Done"
       \/ hello.who = "initiator" /\ Accepted.kind = "OnReadable"
       \/ hello.who = "responder" /\ Accepted.kind = "OnWritable"
    /\ TokenDrop(Accepted.token, TokenDir(Accepted.kind))

\* A state machine whose initiator asks for no connection.
HelloReply_NoConnect(w, st, kind, done) ==
    IF st = "Empty" /\ kind = "Wake" /\ w = "responder"
    THEN [EmptyRequest EXCEPT !.source = "Port"]
    ELSE EmptyRequest

\* ExampleState::accept: the request it returns; done tells whether the read
\* or write it made returned IoResult::Done.
HelloReply(w, st, kind, done) ==
    IF st = "Empty" /\ kind = "Wake"
    THEN IF w = "initiator"
         THEN [EmptyRequest EXCEPT !.connect = <<ResponderAddr>>]
         ELSE [EmptyRequest EXCEPT !.source = "Port"]
    ELSE IF st = "Empty" /\ kind = "OnWritable" /\ w = "initiator" /\ ~done
         THEN [EmptyRequest EXCEPT !.connect = <<ResponderAddr>>]
         ELSE EmptyRequest

\* ExampleState::accept: the state it leaves.
HelloState(w, st, kind, done) ==
    IF /\ st = "Empty" /\ done
       /\ \/ w = "initiator" /\ kind = "OnWritable"
          \/ w = "responder" /\ kind = "OnReadable"
    THEN "Done" ELSE st

\* ExampleState::accept returns and send_proposal merges its request.  What
\* the token did to the socket is now on the wire: the initiator's bytes and
\* the half-close of its write drop, the half-close of the responder's drop.
HelloAccept ==
    /\ accepting
    /\ Accepted.kind \in {"OnWritable", "OnReadable"} =>
         held[<<Accepted.token, TokenDir(Accepted.kind)>>] = 0
    /\ LET w == hello.who
           st == hello.state[w]
           io == lastOp.op \in {"read", "write"}
           done == io /\ lastOp.result.kind = "Done"
       IN /\ request' = AddAssign(request, HelloReply(w, st, Accepted.kind, done))
          /\ hello' = [hello EXCEPT
                !.state[w] = HelloState(w, st, Accepted.kind, done),
                !.trace[w] = IF Accepted.kind = "Idle" THEN @ ELSE Append(@, Accepted),
                !.wire.data = @ \/ (w = "initiator" /\ lastOp.op = "write" /\ done),
                !.wire.fin = @ \/ (w = "responder" /\ lastOp.op = "drop"
                                   /\ "W" \in lastOp.shutdown)]
    /\ accepting' = FALSE
    /\ lastOp' = NoOp
    /\ UNCHANGED <<started, listener, streams, in_progress, blacklist, last_token,
                   armed, backlog, pc, blq, conq, events, pr, error, result,
                   held, delivered, issued, merge, observer>>

\* One step of thread w.
ThreadStep(w) ==
    /\ hello.who = w
    /\ \/ HelloWake
       \/ HelloSource
       \/ Reregister
       \/ HelloConnect
       \/ HelloPoll
       \/ HelloDispatchListener
       \/ HelloDispatchStream
       \/ SendReadiness
       \/ Finish
       \/ Return
       \/ HelloWrite
       \/ HelloRead
       \/ HelloDrop
       \/ HelloAccept

NextHello ==
    \/ HelloWake
    \/ HelloSource
    \/ Reregister
    \/ HelloConnect
    \/ HelloPoll
    \/ HelloDispatchListener
    \/ HelloDispatchStream
    \/ SendReadiness
    \/ Finish
    \/ Return
    \/ HelloWrite
    \/ HelloRead
    \/ HelloDrop
    \/ HelloAccept
    \/ HelloDeliver
    \/ Switch

\* Fair scheduling: the scheduler keeps switching, and a thread that can run
\* again and again does run; reliable network: a connection request that can
\* be delivered is delivered.
FairHello ==
    /\ WF_vars(Switch)
    /\ SF_vars(ThreadStep("initiator"))
    /\ SF_vars(ThreadStep("responder"))
    /\ WF_vars(HelloDeliver)

SpecHello == InitHello /\ [][NextHello]_vars /\ FairHello

\* ----------------------------------------------------------------- claims
RegistryVars == <<listener, streams, in_progress, blacklist, last_token, armed, backlog>>
Wake == [kind |-> "Wake"]
InTable(t) == \E a \in DOMAIN streams : streams[a].token = t
InTableNext(t) == \E a \in DOMAIN streams' : streams'[a].token = t
ReadinessKind(d) == IF d = "W" THEN "OnWritable" ELSE "OnReadable"

\* Tokens of direction d for the stream with token t that are alive: owned by
\* the state machine, or minted and waiting in pr to be sent.
LiveTokens(t, d) ==
    held[<<t, d>>]
    + Cardinality({i \in 1 .. Len(pr) : pr[i].token = t /\ pr[i].kind = ReadinessKind(d)})

\* C1: in every reachable state, every stream of the connection table is
\* referenced by at most one live ReadOnce and at most one live WriteOnce.
C1_OnceTokenUniqueness ==
    \A a \in DOMAIN streams : \A d \in Dirs : LiveTokens(streams[a].token, d) <= 1

\* C1 witness: between two calls of run the state machine owns both the
\* ReadOnce and the WriteOnce of a stream of the table.
C1_Witness ==
    /\ pc = "idle"
    /\ \E a \in DOMAIN streams :
         /\ held[<<streams[a].token, "R">>] = 1
         /\ held[<<streams[a].token, "W">>] = 1

\* C2: before the proposer has started nothing was delivered; the step that
\* starts it delivers Wake alone, returns Ok and touches neither the registry
\* nor the poller; while that call lasts the registry stays untouched and the
\* pending request holds exactly the commands the state machine answered;
\* once started, no step delivers Wake.
C2_WakeFirst ==
    /\ [](~started => delivered = <<>> /\ request = EmptyRequest)
    /\ [][(~started /\ started') =>
            /\ delivered' = <<Wake>>
            /\ pc' = "returned" /\ result' = "Ok"
            /\ error' = EmptyError
            /\ UNCHANGED <<RegistryVars, request, blq, conq, events, pr>>]_vars
    /\ [][(delivered = <<Wake>> /\ delivered' = <<Wake>>) =>
            /\ UNCHANGED <<RegistryVars, blq, conq, events, pr, error, result, pc>>
            /\ Commands(request') = issued']_vars
    /\ [][(started /\ delivered' # delivered /\ delivered' # <<>>) =>
            delivered'[Len(delivered')] # Wake]_vars

\* C2 witness: the first call has returned after delivering Wake alone, and
\* the answer of the state machine is pending.
C2_Witness ==
    /\ pc = "returned" /\ ~accepting
    /\ delivered = <<Wake>>
    /\ request.connect # <<>>
    /\ request.source = "Port"

IsReadiness(p) ==
    \/ p.kind \in {"OnReadable", "OnWritable"}
    \/ (p.kind = "Connection" /\ p.step = "accept")
NIdle == Cardinality({i \in 1 .. Len(delivered) : delivered[i].kind = "Idle"})
NReadiness == Cardinality({i \in 1 .. Len(delivered) : IsReadiness(delivered[i])})
NConnection == Cardinality({i \in 1 .. Len(delivered) : delivered[i].kind = "Connection"})
IterationReturned == pc = "returned" /\ ~accepting /\ delivered # <<Wake>>

\* C3: every call of run after the first delivers either exactly one Idle
\* and no readiness proposal, or no Idle and at least one readiness proposal.
C3_IdleEventExclusivity ==
    IterationReturned =>
        \/ (NIdle = 1 /\ NReadiness = 0)
        \/ (NIdle = 0 /\ NReadiness >= 1)

\* C4: no call of run delivers both an Idle proposal and a Connection proposal.
C4_IdleNeverWithConnection ==
    ~(NIdle >= 1 /\ NConnection >= 1)

\* The poller's interest for the stream with token t (nothing if unregistered).
ArmedFor(t) == IF t \in DOMAIN armed THEN armed[t] ELSE {}
ArmedForNext(t) == IF t \in DOMAIN armed' THEN armed'[t] ELSE {}
Outstanding(s, d) == IF d = "W" THEN s.writer ELSE s.reader
Discarded(s, d) == IF d = "W" THEN s.writer_discarded ELSE s.reader_discarded

InterestLattice ==
    \A a \in DOMAIN streams :
        /\ \A d \in Dirs :
             d \in ArmedFor(streams[a].token)
                <=> (~Outstanding(streams[a], d) /\ ~Discarded(streams[a], d))
        /\ ~(Discarded(streams[a], "R") /\ Discarded(streams[a], "W"))

\* C5: immediately after reregister, every stream of the table is armed for
\* direction D iff it has no outstanding D-token and D is not discarded, and
\* no stream with both halves discarded is left in the table.
C5_InterestLattice ==
    [][(pc = "blacklist" /\ pc' = "connect") => InterestLattice']_vars

HasConnection == \E i \in 1 .. Len(delivered) : delivered[i].kind = "Connection"

\* C6: the blacklist only grows, a blacklist command adds the ip of its
\* address, and an accepted incoming connection whose peer ip is on the
\* blacklist, whatever its port, sends no proposal and leaves the connection
\* table, in_progress, the poller and the token counter as they were.
C6_BlacklistBlocksIncoming ==
    /\ [][blacklist \subseteq blacklist']_vars
    /\ [][(pc = "blacklist" /\ blq # <<>>) => Ip(Head(blq)) \in blacklist']_vars
    /\ [][(lastOp'.op = "accept" /\ Ip(lastOp'.addr) \in blacklist) =>
            UNCHANGED <<delivered, accepting, streams, in_progress, armed,
                        last_token>>]_vars

\* C6 witness: a peer of a blacklisted ip, from a port other than the one of
\* the blacklist command, was accepted and nothing was registered for it.
C6_Witness ==
    /\ lastOp.op = "accept"
    /\ lastOp.addr \notin BlacklistAddr
    /\ Ip(lastOp.addr) \in blacklist
    /\ lastOp.addr \notin DOMAIN streams
    /\ ~HasConnection

\* The last proposal delivered by a step, if the step delivered one.
Delivers == delivered' # delivered /\ delivered' # <<>>
LastDelivered == delivered'[Len(delivered')]

\* C7: a blacklist command for an address of the connection table removes
\* the connection from the table, deregisters it and discards it in the
\* blacklist step, which precedes the poll; a connection that left the table
\* never returns to it, and OnReadable/OnWritable is delivered only for
\* connections of the table.
C7_BlacklistTeardown ==
    /\ [][(pc = "blacklist" /\ blq # <<>> /\ Head(blq) \in DOMAIN streams) =>
            /\ Head(blq) \notin DOMAIN streams'
            /\ ~InTableNext(streams[Head(blq)].token)
            /\ streams[Head(blq)].token \notin DOMAIN armed'
            /\ lastOp' = [op |-> "discard", token |-> streams[Head(blq)].token,
                          addr |-> Head(blq), ok |-> lastOp'.ok]
            /\ pc' = "blacklist"
            /\ delivered' = delivered]_vars
    /\ [][\A t \in Tokens : (t < last_token /\ ~InTable(t)) => ~InTableNext(t)]_vars
    /\ [][(Delivers /\ LastDelivered.kind \in {"OnReadable", "OnWritable"}) =>
            /\ InTableNext(LastDelivered.token)
            /\ LastDelivered.id = AsU16(LastDelivered.token)]_vars

\* C7 witness: a connection was torn down by a blacklist command while the
\* state machine still owned a token of it.
C7_Witness ==
    /\ lastOp.op = "discard"
    /\ ~InTable(lastOp.token)
    /\ lastOp.token \notin DOMAIN armed
    /\ held[<<lastOp.token, "W">>] = 1

\* C8: a read, write or drop of a token whose stream is not in the connection
\* table performs no OS I/O and no shutdown and changes no registry state,
\* and the read or write returns Closed.
C8_DeadTokenClosed ==
    [][\A t \in Tokens, d \in Dirs :
         (held'[<<t, d>>] < held[<<t, d>>] /\ ~InTable(t)) =>
            /\ lastOp'.op \in {"read", "write", "drop"}
            /\ lastOp'.token = t /\ lastOp'.dir = d
            /\ ~lastOp'.io
            /\ lastOp'.shutdown = {}
            /\ (lastOp'.op # "drop" => lastOp'.result = [kind |-> "Closed"])
            /\ UNCHANGED RegistryVars]_vars

\* C8 witness: a write on a token whose stream has left the table, while
\* another stream is in the table.
C8_Witness ==
    /\ lastOp.op = "write"
    /\ ~InTable(lastOp.token)
    /\ lastOp.result = [kind |-> "Closed"]
    /\ streams # <<>>

\* The stream with token t before and after a step.
StreamOf(t) == streams[CHOOSE a \in DOMAIN streams : streams[a].token = t]
StreamOfNext(t) == streams'[CHOOSE a \in DOMAIN streams' : streams'[a].token = t]

\* C9: dropping an unused token of a stream of the table clears the
\* direction's outstanding flag, sets its discarded flag and shuts down
\* exactly that direction; no token is minted for a direction discarded that
\* way, and after each re-registration no such direction is offered to the
\* poller.
C9_UnusedDropDiscards ==
    /\ [][\A t \in Tokens, d \in Dirs :
            (held'[<<t, d>>] < held[<<t, d>>] /\ InTable(t) /\ lastOp'.op = "drop") =>
               /\ InTableNext(t)
               /\ ~Outstanding(StreamOfNext(t), d)
               /\ Discarded(StreamOfNext(t), d)
               /\ lastOp'.shutdown = {d}]_vars
    /\ [][\A a \in DOMAIN streams, d \in Dirs :
            (a \in DOMAIN streams' /\ streams'[a].token = streams[a].token
             /\ Discarded(streams[a], d) /\ ~Outstanding(streams[a], d)) =>
               ~Outstanding(streams'[a], d)]_vars
    /\ [][(pc = "blacklist" /\ pc' = "connect") =>
            \A a \in DOMAIN streams', d \in Dirs :
               (Discarded(streams'[a], d) /\ ~Outstanding(streams'[a], d)) =>
                  d \notin ArmedForNext(streams'[a].token)]_vars

\* C10: a read or write on a token of a stream of the table, and the drop of
\* the consumed token, clear the direction's outstanding flag, leave its
\* discarded flag as it was and perform no OS half-shutdown.
C10_UsedDropKeepsHalfOpen ==
    [][\A t \in Tokens, d \in Dirs :
         (held'[<<t, d>>] < held[<<t, d>>] /\ InTable(t)
          /\ lastOp'.op \in {"read", "write"}) =>
            /\ InTableNext(t)
            /\ ~Outstanding(StreamOfNext(t), d)
            /\ Discarded(StreamOfNext(t), d) = Discarded(StreamOf(t), d)
            /\ lastOp'.shutdown = {}]_vars

\* C11: once a read on a stream has returned Done { length: 0, will_close:
\* true }, every later read on a token of that stream returns Closed.
C11_HalfCloseOnce ==
    [][\A t \in Tokens :
         (held'[<<t, "R">>] < held[<<t, "R">>] /\ lastOp'.op = "read"
          /\ t \in observer.eof) =>
            lastOp'.result = [kind |-> "Closed"]]_vars

\* C12: a Connection proposal of the connect step carries incoming = false
\* and a Connection proposal of the accept branch carries incoming = true.
C12_IncomingFlag ==
    \A i \in 1 .. Len(delivered) :
        delivered[i].kind = "Connection" =>
            (delivered[i].incoming <=> delivered[i].step = "accept")

\* The step that dispatches the listener event while a listener exists.
ListenerEventStep ==
    /\ pc = "dispatch" /\ events # <<>> /\ Head(events).token = LISTENER
    /\ listener
    /\ events' = Tail(events)

\* C13: the dispatch of the listener event accepts every connection waiting
\* in the accept queue, leaving none for a later iteration, and sends a
\* Connection proposal with incoming = true for the first of them that is
\* not blacklisted.
C13_AcceptLoop ==
    [][(ListenerEventStep /\ lastOp'.op = "accept") =>
          /\ backlog' = <<>>
          /\ (~(Ip(Head(backlog)) \in blacklist) =>
                /\ Delivers
                /\ LastDelivered.kind = "Connection"
                /\ LastDelivered.addr = Head(backlog)
                /\ LastDelivered.incoming)]_vars

\* The order in which a call of run moves through its steps.
StepOrder ==
    {<<"idle", "returned">>, <<"idle", "blacklist">>, <<"blacklist", "connect">>,
     <<"connect", "dispatch">>, <<"connect", "returned">>,
     <<"dispatch", "returned">>, <<"dispatch", "panic">>, <<"returned", "idle">>}

\* C14: a call of run after the first applies the source change first, then
\* the blacklist entries, then re-registers, then applies the connects in
\* request order with their Connection proposals, and only polls when all of
\* these are done; events are dispatched only after the poll.
C14_StepOrdering ==
    /\ [][pc' # pc => <<pc, pc'>> \in StepOrder]_vars
    /\ [][listener' # listener => (pc = "idle" /\ pc' = "blacklist")]_vars
    /\ [][(pc = "idle" /\ pc' = "blacklist") =>
            /\ blq' = request.blacklist
            /\ request'.source = "absent"
            /\ UNCHANGED <<blacklist, streams, events, delivered>>]_vars
    /\ [][blacklist' # blacklist => (pc = "blacklist" /\ pc' = "blacklist")]_vars
    /\ [][(pc = "blacklist" /\ blq # <<>>) =>
            (pc' = "blacklist" /\ blq' = Tail(blq)
             /\ Ip(Head(blq)) \in blacklist')]_vars
    /\ [][(pc = "blacklist" /\ pc' = "connect") =>
            (blq = <<>> /\ conq' = request.connect /\ delivered' = delivered)]_vars
    /\ [][(pc = "connect" /\ conq' # conq) =>
            /\ pc' = "connect" /\ conq' = Tail(conq)
            /\ Delivers =>
                 /\ LastDelivered.kind = "Connection"
                 /\ LastDelivered.step = "connect"
                 /\ LastDelivered.addr = Head(conq)]_vars
    /\ [][(pc = "connect" /\ pc' # pc) => (blq = <<>> /\ conq = <<>>)]_vars
    /\ [][events' # events =>
            \/ (pc = "connect" /\ events = <<>>)
            \/ (pc = "dispatch" /\ events' = Tail(events))
            \/ (pc = "returned" /\ events' = <<>>)]_vars
    /\ [][(Delivers /\ IsReadiness(LastDelivered)) => pc = "dispatch"]_vars
    /\ [][(Delivers /\ LastDelivered.kind = "Connection"
           /\ LastDelivered.step = "connect") => pc = "connect"]_vars

\* C14 witness: one call of run applied a source change (the bind failed),
\* then a connect, whose Connection proposal was delivered, and then polled
\* and received events.
C14_Witness ==
    /\ pc = "dispatch"
    /\ error.listen_error
    /\ \E i \in 1 .. Len(delivered) :
         delivered[i].kind = "Connection" /\ delivered[i].step = "connect"
    /\ events # <<>>

\* e2 holds every failure of e1.
ErrorKept(e1, e2) ==
    /\ e1.listen_error => e2.listen_error
    /\ Len(e1.connect_errors) <= Len(e2.connect_errors)
    /\ SubSeq(e2.connect_errors, 1, Len(e1.connect_errors)) = e1.connect_errors
    /\ Len(e1.disconnect_errors) <= Len(e2.disconnect_errors)
    /\ SubSeq(e2.disconnect_errors, 1, Len(e1.disconnect_errors)) = e1.disconnect_errors
    /\ e1.accept_error # "none" => e2.accept_error # "none"
    /\ e1.poll_error => e2.poll_error

\* C18: a failed bind, a failed shutdown of a blacklisted stream and a failed
\* connect leave the iteration running: the source step hands over to the
\* blacklist loop, each loop takes its next entry, the connect loop ends in
\* the poll, no recorded failure is lost before the call returns, and the
\* call returns Err exactly when a failure was recorded.
C18_ErrorIsolation ==
    /\ [][(pc = "idle" /\ started /\ pc' # pc) =>
            (pc' = "blacklist" /\ blq' = request.blacklist)]_vars
    /\ [][(pc = "blacklist" /\ blq # <<>>) =>
            (pc' = "blacklist" /\ blq' = Tail(blq))]_vars
    /\ [][(pc = "blacklist" /\ blq = <<>>) =>
            (pc' = "connect" /\ conq' = request.connect)]_vars
    /\ [][(pc = "connect" /\ conq # <<>>) =>
            (pc' = "connect" /\ conq' \in {conq, Tail(conq)})]_vars
    /\ [][(pc = "connect" /\ pc' = "returned") => error'.poll_error]_vars
    /\ [][(pc \in {"blacklist", "connect", "dispatch"}) => ErrorKept(error, error')]_vars
    /\ [][(pc # "returned" /\ pc' = "returned") =>
            result' = (IF error' = EmptyError THEN "Ok" ELSE "Err")]_vars

\* C18 witness: a call of run in which the bind and a connect failed has
\* polled, delivered Idle and returned both failures.
C18_Witness ==
    /\ pc = "returned"
    /\ result = "Err"
    /\ error.listen_error
    /\ error.connect_errors # <<>>
    /\ ~error.poll_error
    /\ NIdle = 1

\* C19: a call of run whose poll failed with an error other than Interrupted
\* returns poll_error after the dispatch step has run, that is, after Idle
\* was delivered for the empty event batch.
C19_PollFailureDrains ==
    (pc = "returned" /\ error.poll_error) => (result = "Err" /\ NIdle = 1)

\* The two proposals of an event that reports token t writable and readable.
BothProposals(t) ==
    <<[kind |-> "OnWritable", id |-> AsU16(t), token |-> t],
      [kind |-> "OnReadable", id |-> AsU16(t), token |-> t]>>

\* C15: when a poll event reports a connection of the table both readable
\* and writable, its dispatch queues OnWritable and then OnReadable with the
\* id of that connection, the two are the next proposals delivered, and each
\* hands the state machine a token it did not own.
C15_SimultaneousReadiness ==
    /\ [][(lastOp'.op = "event" /\ lastOp'.readable /\ lastOp'.writable
           /\ InTable(lastOp'.token)) =>
            pr' = BothProposals(lastOp'.token)]_vars
    /\ [][(pr # <<>> /\ Delivers) =>
            /\ LastDelivered = Head(pr)
            /\ pr' = Tail(pr)
            /\ \A d \in Dirs :
                 Head(pr).kind = ReadinessKind(d) =>
                    (held[<<Head(pr).token, d>>] = 0
                     /\ held'[<<Head(pr).token, d>>] = 1)]_vars
    /\ [][(pr # <<>> /\ pr' # pr) => Delivers]_vars

\* The replies merged so far, and the concatenation of one of their lists.
Merged == SubSeq(merge.replies, 1, merge.n)
RECURSIVE CatBlacklist(_)
CatBlacklist(rs) ==
    IF rs = <<>> THEN <<>> ELSE rs[1].blacklist \o CatBlacklist(Tail(rs))
RECURSIVE CatConnect(_)
CatConnect(rs) ==
    IF rs = <<>> THEN <<>> ELSE rs[1].connect \o CatConnect(Tail(rs))
\* The source of the earliest reply that has one.
RECURSIVE FirstSource(_)
FirstSource(rs) ==
    IF rs = <<>> THEN "absent"
    ELSE IF rs[1].source # "absent" THEN rs[1].source ELSE FirstSource(Tail(rs))

\* C16: a += b holds a's blacklist followed by b's and a's connect list
\* followed by b's; the empty request is a left and a right identity; the
\* merge is associative; and the pending request of the proposer holds the
\* lists of the replies merged so far in the order they were given.
C16_RequestMerge ==
    LET a == merge.replies[1]
        b == merge.replies[2]
        c == merge.replies[3]
    IN /\ AddAssign(a, b).blacklist = a.blacklist \o b.blacklist
       /\ AddAssign(a, b).connect = a.connect \o b.connect
       /\ AddAssign(EmptyRequest, a) = a
       /\ AddAssign(a, EmptyRequest) = a
       /\ AddAssign(AddAssign(a, b), c) = AddAssign(a, AddAssign(b, c))
       /\ pc = "idle" =>
            /\ request.blacklist = CatBlacklist(Merged)
            /\ request.connect = CatConnect(Merged)

\* C16 witness: three replies with different lists were merged.
C16_Witness ==
    /\ pc = "idle"
    /\ merge.n = 3
    /\ request.connect = <<<<1, 1>>, <<1, 2>>, <<1, 1>>>>
    /\ request.blacklist = <<<<1, 2>>, <<1, 1>>>>

\* C17: merging a request with a source into a request that has one keeps
\* the source it had; the pending request holds the source of the earliest
\* reply that set one; and the source step applies that source: a Port ends
\* in a listener or a listen error, None in neither.
C17_SourceFirstWriterWins ==
    /\ [](\A i, j \in 1 .. Len(merge.replies) :
            (merge.replies[i].source # "absent" /\ merge.replies[j].source # "absent")
               => AddAssign(merge.replies[i], merge.replies[j]).source
                     = merge.replies[i].source)
    /\ [](pc = "idle" => request.source = FirstSource(Merged))
    /\ [][(pc = "idle" /\ pc' = "blacklist") =>
            /\ request'.source = "absent"
            /\ (FirstSource(Merged) = "Port") <=> (listener' \/ error'.listen_error)]_vars

\* C17 witness: the first reply asked for Port, a later one for None, and the
\* source step bound the listener.
C17_Witness ==
    /\ pc = "blacklist"
    /\ merge.n = 3
    /\ merge.replies[1].source = "Port"
    /\ merge.replies[3].source = "None"
    /\ listener

\* C20: the counter grows by one with each allocation, the token handed out
\* is not the listener's, and the ConnectionId built from it differs from
\* the ConnectionId of every connection registered before; the counter
\* starts at 0, so the tokens below it are the ones handed out so far.
C20_ConnectionIdentity ==
    [][last_token' # last_token =>
         /\ last_token' = last_token + 1
         /\ lastOp'.token = last_token
         /\ lastOp'.token # LISTENER
         /\ \A t \in Tokens :
              t < last_token => ConnectionId(t) # ConnectionId(lastOp'.token)]_vars

\* C22: a direction of a stream whose discarded flag is true keeps it true
\* for as long as the stream stays in the connection table.
C22_DiscardedPermanent ==
    [][\A a \in DOMAIN streams, d \in Dirs :
         (a \in DOMAIN streams' /\ streams'[a].token = streams[a].token
          /\ Discarded(streams[a], d)) =>
            Discarded(streams'[a], d)]_vars

\* C23: the will_close returned by a read or a write on a token of a stream
\* of the table is the closed bit that the event which minted the token
\* reported for the token's direction.
C23_WillCloseAtMint ==
    [][\A t \in Tokens, d \in Dirs :
         (held'[<<t, d>>] < held[<<t, d>>] /\ InTable(t)
          /\ lastOp'.op \in {"read", "write"} /\ lastOp'.result.kind = "Done") =>
            lastOp'.result.will_close = (<<t, d>> \in observer.closed)]_vars

\* C23 witness: a write token minted by an event that reported the write
\* direction closed was held until a later call of run, and the write on it,
\* made while that call delivered another proposal, returned will_close = true.
C23_Witness ==
    /\ accepting
    /\ \A i \in 1 .. Len(delivered) : delivered[i].kind # "OnWritable"
    /\ lastOp.op = "write"
    /\ lastOp.alive
    /\ lastOp.result.kind = "Done"
    /\ lastOp.result.will_close

\* The commands not yet applied: the list the running loop still walks,
\* followed by the list of the pending request.
PendingBlacklist == blq \o request.blacklist
PendingConnects == conq \o request.connect

\* s is the end of full.
IsSuffix(s, full) ==
    /\ Len(s) <= Len(full)
    /\ SubSeq(full, Len(full) - Len(s) + 1, Len(full)) = s

\* The step in which State::accept returns.
AcceptReturns == accepting /\ ~accepting'

\* C24: the addresses not yet applied are always the last ones the state
\* machine returned, in the order it returned them; a reply adds its
\* addresses at the end of the pending request and leaves the lists of the
\* running call alone; an address leaves only from the front, by the step of
\* the blacklist loop or the connect loop that applies it; each list is taken
\* whole, once per call of run and before the call delivers any proposal, and
\* the field of the pending request is empty after the take.
C24_ExactlyOnce ==
    /\ [](IsSuffix(PendingBlacklist, CatBlacklist(merge.replies)))
    /\ [](IsSuffix(PendingConnects, CatConnect(merge.replies)))
    /\ [][AcceptReturns =>
            /\ blq' = blq /\ conq' = conq
            /\ \E r \in ApplyRequests :
                 /\ request'.blacklist = request.blacklist \o r.blacklist
                 /\ request'.connect = request.connect \o r.connect
                 /\ CatBlacklist(merge'.replies) = CatBlacklist(merge.replies) \o r.blacklist
                 /\ CatConnect(merge'.replies) = CatConnect(merge.replies) \o r.connect]_vars
    /\ [][(~AcceptReturns /\ PendingBlacklist' # PendingBlacklist) =>
            /\ pc = "blacklist" /\ blq # <<>>
            /\ blq' = Tail(blq) /\ request'.blacklist = request.blacklist
            /\ Ip(Head(blq)) \in blacklist'
            /\ Head(blq) \notin DOMAIN streams']_vars
    /\ [][(~AcceptReturns /\ PendingConnects' # PendingConnects) =>
            /\ pc = "connect" /\ conq # <<>>
            /\ conq' = Tail(conq) /\ request'.connect = request.connect]_vars
    /\ [][(pc = "connect" /\ conq # <<>> /\ ~accepting) =>
            /\ conq' = Tail(conq)
            /\ \/ Head(conq) \in DOMAIN streams
               \/ Head(conq) \in DOMAIN streams'
               \/ Len(error'.connect_errors) = Len(error.connect_errors) + 1]_vars
    /\ [][(~AcceptReturns /\ request'.blacklist # request.blacklist) =>
            /\ pc = "idle" /\ pc' = "blacklist" /\ delivered = <<>>
            /\ blq = <<>> /\ blq' = request.blacklist /\ request'.blacklist = <<>>]_vars
    /\ [][(~AcceptReturns /\ request'.connect # request.connect) =>
            /\ pc = "blacklist" /\ pc' = "connect" /\ delivered = <<>>
            /\ conq = <<>> /\ conq' = request.connect /\ request'.connect = <<>>]_vars
    /\ [][(pc = "idle" /\ pc' = "blacklist") => request'.blacklist = <<>>]_vars
    /\ [][(pc = "blacklist" /\ pc' = "connect") => request'.connect = <<>>]_vars

\* C24 witness: the connect loop applied the first of two pending addresses,
\* its Connection proposal was answered with a third address, which waits in
\* the pending request while the loop still holds the second.
C24_Witness ==
    /\ pc = "connect"
    /\ ~accepting
    /\ Len(conq) = 1
    /\ Len(request.connect) = 1
    /\ Len(CatConnect(merge.replies)) = 3
    /\ \E i \in 1 .. Len(delivered) : delivered[i].kind = "Connection"

\* C25: when the dispatch claims a connection event from in_progress, the
\* stream it finds can mint a token for every direction the event reports:
\* the direction has no outstanding token and is not discarded.
C25_MintNeverFails ==
    [][(pc = "dispatch" /\ events' # events /\ lastOp'.op = "event"
        /\ lastOp'.token \in DOMAIN in_progress) =>
          /\ in_progress[lastOp'.token] \in DOMAIN streams
          /\ LET s == streams[in_progress[lastOp'.token]]
             IN /\ lastOp'.writable => CanWriteOnce(s)
                /\ lastOp'.readable => CanReadOnce(s)
          /\ pc' # "panic"]_vars

\* C26: an accept that answers WouldBlock is not recorded as accept_error
\* and does not make the call of run return an error.
C26_WouldBlockNotAnError ==
    /\ [](error.accept_error # "WouldBlock")
    /\ [][(ListenerEventStep /\ backlog = <<>> /\ error'.accept_error # "Other") =>
            error' = error]_vars

\* The step of the connect loop that handles the address at its head.
ConnectStep == pc = "connect" /\ conq # <<>> /\ conq' = Tail(conq)

\* C27: a connect command for an address that is not in the table either
\* registers a new stream under a new token, armed for writing and entered
\* in in_progress, and delivers its Connection proposal, or records a
\* connect_error and changes nothing else; for an address that is in the
\* table it changes nothing and delivers nothing.
C27_ConnectFrame ==
    [][ConnectStep =>
         LET a == Head(conq)
         IN IF a \in DOMAIN streams
            THEN UNCHANGED <<streams, in_progress, last_token, armed, delivered, error>>
            ELSE \/ /\ streams' = Put(streams, a, ManagedStreamNew(last_token))
                    /\ last_token' = last_token + 1
                    /\ in_progress' = Put(in_progress, last_token, a)
                    /\ armed' = Put(armed, last_token, {"W"})
                    /\ delivered' = Append(delivered, ConnectProposal(a, last_token))
                    /\ error' = error
                 \/ /\ error' = [error EXCEPT !.connect_errors = Append(@, a)]
                    /\ UNCHANGED <<streams, in_progress, last_token, armed, delivered>>]_vars

\* C27 witness: of two connect commands for the same address taken by one
\* call of run, the first registered the stream and delivered the Connection
\* proposal and the second did nothing.
C27_Witness ==
    /\ pc = "connect"
    /\ conq = <<>>
    /\ request.connect = <<>>
    /\ Len(CatConnect(merge.replies)) = 2
    /\ CatConnect(merge.replies)[1] = CatConnect(merge.replies)[2]
    /\ NConnection = 1
    /\ Len(delivered) = 1
    /\ error.connect_errors = <<>>
    /\ last_token = 1

\* The step of run_inner that applies a source change.
SourceStep == pc = "idle" /\ pc' = "blacklist" /\ request.source # "absent"

\* C28: the listener is registered in the poller exactly when it exists; the
\* listener and its registration change only when a source change is
\* applied; after that step the accept queue of the previous listener is
\* gone, a listener exists exactly when the new source is Port and the bind
\* succeeded, listen_error is recorded exactly when the bind failed, and the
\* call then returns Err.
C28_ListenerReplacement ==
    /\ [](listener <=> (LISTENER \in DOMAIN armed))
    /\ [][(listener' # listener \/ ArmedForNext(LISTENER) # ArmedFor(LISTENER)) =>
            SourceStep]_vars
    /\ [][SourceStep =>
            /\ backlog' = <<>>
            /\ lastOp'.op = "set_source" /\ lastOp'.had = listener
            /\ IF request.source = "Port"
               THEN listener' <=> ~error'.listen_error
               ELSE ~listener' /\ ~error'.listen_error]_vars
    /\ []((pc = "returned" /\ error.listen_error) => result = "Err")

\* C28 witness: a source change to Port has just been applied while a
\* listener existed and its bind failed: the proposer has no listener, none
\* is registered, and listen_error is recorded.
C28_Witness ==
    /\ pc = "blacklist"
    /\ lastOp.op = "set_source"
    /\ lastOp.source = "Port"
    /\ lastOp.had
    /\ error.listen_error
    /\ ~listener
    /\ LISTENER \notin DOMAIN armed

\* The step in which run_inner polls.
PollStep == pc = "connect" /\ pc' \in {"dispatch", "returned"}

\* C29: when run_inner polls, no stream of the connection table has a peer
\* ip that is in the blacklist.
C29_NoBlacklistedStream ==
    [][PollStep => \A a \in DOMAIN streams : Ip(a) \notin blacklist]_vars

\* C30: every entry t -> a of in_progress points at a stream of the
\* connection table: the table holds a stream for a, and its token is t.
C30_InProgressConsistent ==
    \A t \in DOMAIN in_progress :
        /\ in_progress[t] \in DOMAIN streams
        /\ streams[in_progress[t]].token = t

\* The kinds of the proposals thread w received, Idle left out.
HelloReceived(w, kind) == \E i \in 1 .. Len(hello.trace[w]) : hello.trace[w][i].kind = kind

\* The order in which thread w receives its proposals: Wake, then a
\* Connection, then the readiness proposal it acts on, and Done only after it.
HelloOrder(w, kind) ==
    LET tr == hello.trace[w]
    IN /\ Len(tr) >= 1 => tr[1].kind = "Wake"
       /\ Len(tr) >= 2 => tr[2].kind = "Connection"
       /\ \A i \in 1 .. Len(tr) : tr[i].kind = kind => i >= 3
       /\ hello.state[w] = "Done" => HelloReceived(w, kind)

\* Both threads left their loop: the state machine is terminal and no call of
\* run is under way.
HelloTerminated ==
    /\ \A w \in Threads : hello.state[w] = "Done"
    /\ \A w \in Threads : ThreadOf(w).pc = "idle" /\ ~ThreadOf(w).accepting

ReregisterStep == pc = "blacklist" /\ pc' = "connect"

\* C32: the purge of closed streams in reregister never removes a stream
\* while a ReadOnce or WriteOnce for it is still held by the state machine.
C32_PurgeSparesOutstanding ==
    [][ReregisterStep =>
         \A t \in Tokens :
            (InTable(t) /\ ~InTableNext(t)) =>
               \A d \in Dirs : held[<<t, d>>] = 0]_vars

\* No readiness proposal for the stream with token t is waiting to be sent.
NoProposalFor(t) == \A i \in 1 .. Len(pr) : pr[i].token # t

\* C31: once the poller has reported both halves of a stream closed, and the
\* state machine eventually uses or drops every token it is handed, the
\* stream is eventually removed from the connection table and no OnReadable
\* or OnWritable is delivered for it from then on.
C31_ClosedEventuallyPurged ==
    \A t \in Tokens :
        [](t \in observer.hup => <>[](~InTable(t) /\ NoProposalFor(t)))

====
